---- MODULE Spec2Model ----
(***************************************************************************)
(* A model of src/extension/src/Package.ts: the Package entity of the      *)
(* private extension manager.  A Package is constructed once from a        *)
(* manifest, its installation snapshot is replaced by updateState() (the   *)
(* specification's refreshState), and its getters are computed from the    *)
(* snapshot and the construction-time fields each time they are read.      *)
(*                                                                         *)
(* JavaScript values are encoded with one shape per field, so that two     *)
(* values of a field can always be compared:                               *)
(*   - a string of identifier text is a sequence of one-character strings; *)
(*   - a version string is a sequence of UTF-16 code units (numbers),      *)
(*     because the code compares version strings by code unit;             *)
(*   - an optional manifest field is a record with a flag saying what      *)
(*     typeof / Array.isArray would answer, and the value;                 *)
(*   - a SemVer is <<major, minor, patch>> and null is <<>>.               *)
(***************************************************************************)
EXTENDS Integers, Sequences, FiniteSets

(***************************************************************************)
(* Bounds of the model.                                                    *)
(***************************************************************************)
\* version numbers range over 0..MaxMajor . 0..MaxMinor . 0..MaxPatch
MaxMajor == 1
MaxMinor == 10
MaxPatch == 1
\* updateState() calls that may be suspended on their lookup at once
MaxCalls == 2
\* keys the 'remote.extensionKind' setting may hold
MaxKeys == 2

(***************************************************************************)
(* Strings.                                                                *)
(***************************************************************************)
\* String.prototype.toLowerCase on the alphabet the model uses
LowerChar(c) ==
    CASE c = "F" -> "f"
      [] c = "B" -> "b"
      [] c = "O" -> "o"
      [] c = "U" -> "u"
      [] OTHER -> c

ToLowerCase(s) == [i \in 1..Len(s) |-> LowerChar(s[i])]

\* String.prototype.endsWith
EndsWith(s, suffix) ==
    /\ Len(s) >= Len(suffix)
    /\ SubSeq(s, Len(s) - Len(suffix) + 1, Len(s)) = suffix

\* the decimal digits of a natural number, most significant first
RECURSIVE DecimalDigits(_)
DecimalDigits(n) ==
    IF n < 10 THEN <<n>> ELSE DecimalDigits(n \div 10) \o <<n % 10>>

\* the UTF-16 code units of the decimal numeral of n ("0" is 48)
Numeral(n) == [i \in 1..Len(DecimalDigits(n)) |-> 48 + DecimalDigits(n)[i]]

\* SemVer.prototype.toString(): "major.minor.patch" ("." is 46)
toString(v) == Numeral(v[1]) \o <<46>> \o Numeral(v[2]) \o <<46>> \o Numeral(v[3])

\* a > b on two JavaScript strings: the longer one when one is a prefix of
\* the other, otherwise decided by the first code unit where they differ
StringGreater(a, b) ==
    \E i \in 1..Len(a) :
        /\ \A j \in 1..(i - 1) : j <= Len(b) /\ a[j] = b[j]
        /\ \/ i > Len(b)
           \/ i <= Len(b) /\ a[i] > b[i]

(***************************************************************************)
(* Versions.                                                               *)
(***************************************************************************)
\* new SemVer('0.0.0'), the version of a manifest whose version is missing
\* or does not parse
ZeroVersion == <<0, 0, 0>>

\* the SemVer objects of the model
Versions == (0..MaxMajor) \X (0..MaxMinor) \X (0..MaxPatch)

\* the slice of Versions the lifecycle specification draws from: the two
\* highest minor versions of the highest major version, e.g. 1.9.x and
\* 1.10.x, whose numerals differ in length
BoundaryVersions == {v \in Versions : v[1] = MaxMajor /\ v[2] >= MaxMinor - 1}

\* semver's parse(): the SemVer whose text is s, or null (<<>>)
parseVersion(s) ==
    IF \E v \in Versions : toString(v) = s
    THEN CHOOSE v \in Versions : toString(v) = s
    ELSE <<>>

\* precedence of the semantic-versioning specification on
\* major.minor.patch versions: a comes before b
SemVerLess(a, b) ==
    \/ a[1] < b[1]
    \/ a[1] = b[1] /\ a[2] < b[2]
    \/ a[1] = b[1] /\ a[2] = b[2] /\ a[3] < b[3]

(***************************************************************************)
(* Manifests and the host environment.                                     *)
(***************************************************************************)
\* text values
Foo == <<"F", "o", "o">>
Bar == <<"B", "a", "r">>
Unknown == <<"U", "n", "k", "n", "o", "w", "n">>
ReadmeFile == <<"R", "E", "A", "D", "M", "E", ".", "m", "d">>
VsixFile == <<"b", "a", "r", ".", "v", "s", "i", "x">>
MainFile == <<"m", "a", "i", "n", ".", "j", "s">>
NotAVersion == <<120>>

\* a manifest field of type string / array, and such a field when it is
\* absent (or has another type)
Str(s) == [isString |-> TRUE, val |-> s]
NoStr == [isString |-> FALSE, val |-> <<>>]
Arr(a) == [isArray |-> TRUE, val |-> a]
NoArr == [isArray |-> FALSE, val |-> <<>>]
\* the extension kind strings carry no text operations: they are atoms
Kind(k) == [isString |-> TRUE, val |-> k]
NoKind == [isString |-> FALSE, val |-> "undefined"]

\* manifest.engines: whether it is a non-null object, and its keys
Engines(keys) == [isObject |-> TRUE, keys |-> keys]
NoEngines == [isObject |-> FALSE, keys |-> {}]

\* vscode.env.remoteName
NoRemote == [isDefined |-> FALSE, val |-> "undefined"]
Remote == [isDefined |-> TRUE, val |-> "ssh-remote"]

(***************************************************************************)
(* State.                                                                  *)
(***************************************************************************)
VARIABLES
    manifest,                \* the manifest the Package was constructed from
    remoteName,              \* vscode.env.remoteName
    configuration,           \* the 'remote.extensionKind' setting: <<[id, kind], ...>> in key order
    constructedWith,         \* history: <<remoteName, configuration>> when the constructor ran
    thrown,                  \* what the constructor threw: "none" when it returned
    name,                    \* Package.name
    displayName,             \* Package.displayName
    description,             \* Package.description
    version,                 \* Package.version
    extensionId,             \* Package.extensionId
    vsixFile,                \* Package.vsixFile (string | null)
    _publisher,              \* Package._publisher (string | undefined)
    _isUiExtension,          \* Package._isUiExtension, the construction-time hint
    _isInstalled,            \* Package._isInstalled
    _installedVersion,       \* Package._installedVersion (SemVer | null)
    _installedExtensionKind, \* Package._installedExtensionKind ("UI", "Workspace" or "undefined")
    calls,                   \* the updateState() calls since the last quiet moment, in the order issued
    lastSettled,             \* which of calls settled last (0: none yet)
    lastLookup,              \* history: what the last lookup that resolved returned
    liveKindSeen,            \* history: some lookup has resolved to an extension with a host kind
    probe                    \* the result of the last stand-alone classification

environment == <<remoteName, configuration>>
identity == <<manifest, constructedWith, thrown, name, displayName, description, version, extensionId,
              vsixFile, _publisher, _isUiExtension>>
snapshot == <<_isInstalled, _installedExtensionKind, _installedVersion>>
tasks == <<calls, lastSettled, lastLookup, liveKindSeen>>
vars == <<environment, identity, snapshot, tasks, probe>>

(***************************************************************************)
(* Module-level functions of Package.ts.                                   *)
(***************************************************************************)
\* isNonEmptyArray() of ./util
isNonEmptyArray(arg) == arg.isArray /\ Len(arg.val) > 0

\* the truthiness of a manifest field that is a string or absent
Truthy(field) == field.isString /\ field.val # <<>>

findVsixFile(m) ==
    LET hits == {i \in 1..Len(m.files.val) :
                    /\ m.files.val[i].isString
                    /\ EndsWith(m.files.val[i].val, <<".", "v", "s", "i", "x">>)}
    IN  IF m.files.isArray /\ hits # {}
        THEN m.files.val[CHOOSE i \in hits : \A j \in hits : i <= j]
        ELSE NoStr

\* getExtensionKind as it would be if the manifest came before the setting
getExtensionKindManifestFirst(id, m, config) ==
    LET hits == {i \in 1..Len(config) : ToLowerCase(config[i].id) = id}
    IN  IF m.extensionKind.isString
        THEN m.extensionKind
        ELSE IF hits # {}
             THEN config[CHOOSE i \in hits : \A j \in hits : i <= j].kind
             ELSE NoKind

getExtensionKind(id, m, config) ==
    LET hits == {i \in 1..Len(config) : ToLowerCase(config[i].id) = id}
    IN  IF hits # {}
        THEN config[CHOOSE i \in hits : \A j \in hits : i <= j].kind
        ELSE IF m.extensionKind.isString THEN m.extensionKind ELSE NoKind

\* the classification as it would be without the test for remote development
isUiExtensionFnRemoteOnly(id, m, remote, config) ==
    LET extensionKind == getExtensionKind(id, m, config)
    IN  CASE extensionKind = Kind("ui") -> TRUE
          [] extensionKind = Kind("workspace") -> FALSE
          [] OTHER ->
               IF Truthy(m.main) THEN FALSE
               ELSE IF \/ isNonEmptyArray(m.extensionDependencies)
                       \/ isNonEmptyArray(m.extensionPack)
                    THEN FALSE
                    ELSE TRUE

\* the classification as it would be if it tested extensionDependencies and
\* extensionPack for being arrays, empty or not
isUiExtensionFnAnyArray(id, m, remote, config) ==
    IF ~remote.isDefined THEN TRUE
    ELSE LET extensionKind == getExtensionKind(id, m, config)
         IN  CASE extensionKind = Kind("ui") -> TRUE
               [] extensionKind = Kind("workspace") -> FALSE
               [] OTHER ->
                    IF Truthy(m.main) THEN FALSE
                    ELSE IF m.extensionDependencies.isArray \/ m.extensionPack.isArray
                         THEN FALSE
                         ELSE TRUE

isUiExtensionFn(id, m, remote, config) ==
    IF ~remote.isDefined THEN TRUE
    ELSE LET extensionKind == getExtensionKind(id, m, config)
         IN  CASE extensionKind = Kind("ui") -> TRUE
               [] extensionKind = Kind("workspace") -> FALSE
               [] OTHER ->
                    IF Truthy(m.main) THEN FALSE
                    ELSE IF \/ isNonEmptyArray(m.extensionDependencies)
                            \/ isNonEmptyArray(m.extensionPack)
                         THEN FALSE
                         ELSE TRUE

(***************************************************************************)
(* The constructor.                                                        *)
(***************************************************************************)
\* the publisher getter, on a value of _publisher
publisherOf(pub) == IF pub.isString THEN pub.val ELSE Unknown

\* the object a throwing constructor leaves behind: no field but the
\* initialised ones was assigned
Failed(error) ==
    [thrown |-> error, name |-> <<>>, displayName |-> <<>>, description |-> <<>>,
     version |-> <<>>, extensionId |-> <<>>, vsixFile |-> NoStr, _publisher |-> NoStr,
     _isUiExtension |-> FALSE]

\* the constructor as it would be if it tested the name before the engines
ConstructorNameFirst(m, remote, config) ==
    IF ~m.name.isString
    THEN Failed("TypeError")
    ELSE IF ~(m.engines.isObject /\ "vscode" \in m.engines.keys)
    THEN Failed("NotAnExtensionError")
    ELSE LET pub == IF m.publisher.isString THEN m.publisher ELSE NoStr
             parsed == IF m.version.isString THEN parseVersion(m.version.val) ELSE <<>>
             id == ToLowerCase(publisherOf(pub) \o <<".">> \o m.name.val)
         IN  [thrown |-> "none",
              name |-> m.name.val,
              displayName |-> IF m.displayName.isString THEN m.displayName.val ELSE m.name.val,
              description |-> IF m.description.isString THEN m.description.val ELSE m.name.val,
              version |-> IF parsed # <<>> THEN parsed ELSE ZeroVersion,
              extensionId |-> id,
              vsixFile |-> findVsixFile(m),
              _publisher |-> pub,
              _isUiExtension |-> isUiExtensionFn(id, m, remote, config)]

Constructor(m, remote, config) ==
    IF ~(m.engines.isObject /\ "vscode" \in m.engines.keys)
    THEN Failed("NotAnExtensionError")
    ELSE IF ~m.name.isString
    THEN Failed("TypeError")
    ELSE LET pub == IF m.publisher.isString THEN m.publisher ELSE NoStr
             parsed == IF m.version.isString THEN parseVersion(m.version.val) ELSE <<>>
             id == ToLowerCase(publisherOf(pub) \o <<".">> \o m.name.val)
         IN  [thrown |-> "none",
              name |-> m.name.val,
              displayName |-> IF m.displayName.isString THEN m.displayName.val ELSE m.name.val,
              description |-> IF m.description.isString THEN m.description.val ELSE m.name.val,
              version |-> IF parsed # <<>> THEN parsed ELSE ZeroVersion,
              extensionId |-> id,
              vsixFile |-> findVsixFile(m),
              _publisher |-> pub,
              _isUiExtension |-> isUiExtensionFn(id, m, remote, config)]

(***************************************************************************)
(* The getters.                                                            *)
(***************************************************************************)
isInstalled == _isInstalled

installedVersion == _installedVersion

\* the getter as it would be if it returned the construction-time hint only
isUiExtensionFromHint == _isUiExtension

\* the getter as it would be if it classified again under the settings of
\* the moment instead of returning the construction-time hint
isUiExtensionClassifiedAgain ==
    IF _installedExtensionKind # "undefined"
    THEN _installedExtensionKind = "UI"
    ELSE isUiExtensionFn(extensionId, manifest, remoteName, configuration)

isUiExtension ==
    IF _installedExtensionKind # "undefined"
    THEN _installedExtensionKind = "UI"
    ELSE _isUiExtension

\* this.version > this.installedVersion compares the two objects' toString()
isUpdateAvailable ==
    /\ installedVersion # <<>>
    /\ StringGreater(toString(version), toString(installedVersion))

\* state as it would be if the validity test forgot the .vsix file
stateWithoutVsixTest ==
    IF Truthy(_publisher)
    THEN IF isUpdateAvailable THEN "update"
         ELSE IF isInstalled
              THEN IF isUiExtension THEN "installed" ELSE "installed.remote"
              ELSE "available"
    ELSE "invalid"

state ==
    IF Truthy(_publisher) /\ vsixFile.isString
    THEN IF isUpdateAvailable THEN "update"
         ELSE IF isInstalled
              THEN IF isUiExtension THEN "installed" ELSE "installed.remote"
              ELSE "available"
    ELSE "invalid"

publisher == publisherOf(_publisher)

\* errorMessage as it would be if it tested the .vsix file first
errorMessageVsixFirst ==
    IF ~vsixFile.isString THEN "Manifest is missing .vsix file in \"files\" field."
    ELSE IF ~Truthy(_publisher) THEN "Manifest is missing \"publisher\" field."
    ELSE ""

errorMessage ==
    IF ~Truthy(_publisher) THEN "Manifest is missing \"publisher\" field."
    ELSE IF ~vsixFile.isString THEN "Manifest is missing .vsix file in \"files\" field."
    ELSE ""

(***************************************************************************)
(* The installed-extension lookup, getExtension() of ./extensionInfo.      *)
(***************************************************************************)
\* the values _installedExtensionKind takes
ExtensionKinds == {"UI", "Workspace", "undefined"}

\* the extensions a lookup may resolve to, with versions drawn from vs
HostExtensions(vs) == [tag : {"hit"}, extensionKind : ExtensionKinds, version : vs]

\* a lookup that resolves to undefined
Miss == [tag |-> "miss", extensionKind |-> "undefined", version |-> <<>>]

\* no lookup has resolved yet
NoLookup == [tag |-> "none", extensionKind |-> "undefined", version |-> <<>>]

(***************************************************************************)
(* updateState().                                                          *)
(***************************************************************************)
Awaiting == {k \in 1..Len(calls) : calls[k] = "awaiting"}

\* state, isInstalled, installedVersion, isUiExtension, isUpdateAvailable or
\* errorMessage is read: the getters assign nothing
readGetters ==
    /\ thrown = "none"
    /\ UNCHANGED vars

\* updateState() as it would be if it cleared the snapshot before its lookup
updateStateCallClearing ==
    /\ thrown = "none"
    /\ IF Awaiting = {}
       THEN /\ calls' = <<"awaiting">>
            /\ lastSettled' = 0
       ELSE /\ Len(calls) < MaxCalls
            /\ calls' = Append(calls, "awaiting")
            /\ UNCHANGED lastSettled
    /\ _isInstalled' = FALSE
    /\ _installedExtensionKind' = "undefined"
    /\ _installedVersion' = <<>>
    /\ UNCHANGED <<environment, identity, lastLookup, liveKindSeen, probe>>

\* updateState() is called: it runs up to its await and suspends there
updateStateCall ==
    /\ thrown = "none"
    /\ IF Awaiting = {}
       THEN /\ calls' = <<"awaiting">>
            /\ lastSettled' = 0
       ELSE /\ Len(calls) < MaxCalls
            /\ calls' = Append(calls, "awaiting")
            /\ UNCHANGED lastSettled
    /\ UNCHANGED <<environment, identity, snapshot, lastLookup, liveKindSeen, probe>>

\* the hit branch as it would be if it did not record the host kind
updateStateHitWithoutKind(extension) ==
    /\ _isInstalled' = TRUE
    /\ _installedVersion' = extension.version
    /\ UNCHANGED _installedExtensionKind

\* the hit branch as it would be if it did not set the installed flag
updateStateHitWithoutFlag(extension) ==
    /\ _installedExtensionKind' = extension.extensionKind
    /\ _installedVersion' = extension.version
    /\ UNCHANGED _isInstalled

\* the branch of updateState() taken when the lookup found the extension
updateStateHit(extension) ==
    /\ _isInstalled' = TRUE
    /\ _installedExtensionKind' = extension.extensionKind
    /\ _installedVersion' = extension.version

\* the miss branch as it would be if it cleared the installed flag only
updateStateMissFlagOnly ==
    /\ _isInstalled' = FALSE
    /\ UNCHANGED <<_installedExtensionKind, _installedVersion>>

\* the branch of updateState() taken when the lookup found nothing
updateStateMiss ==
    /\ _isInstalled' = FALSE
    /\ _installedExtensionKind' = "undefined"
    /\ _installedVersion' = <<>>

\* updateState() as it would be if a call overtaken by a later call dropped
\* its result: only the call issued last writes the snapshot
updateStateResolveLatestIssuedOnly(k, extension) ==
    /\ k \in Awaiting
    /\ IF k = Len(calls)
       THEN IF extension.tag = "hit" THEN updateStateHit(extension) ELSE updateStateMiss
       ELSE UNCHANGED snapshot
    /\ calls' = [calls EXCEPT ![k] = "fulfilled"]
    /\ lastSettled' = k
    /\ lastLookup' = extension
    /\ liveKindSeen' = (liveKindSeen \/ (extension.tag = "hit" /\ extension.extensionKind # "undefined"))
    /\ UNCHANGED <<environment, identity, probe>>

\* the lookup of call k resolves to extension: the call resumes, runs to its
\* end without suspending again, and its promise is fulfilled
updateStateResolve(k, extension) ==
    /\ k \in Awaiting
    /\ IF extension.tag = "hit" THEN updateStateHit(extension) ELSE updateStateMiss
    /\ calls' = [calls EXCEPT ![k] = "fulfilled"]
    /\ lastSettled' = k
    /\ lastLookup' = extension
    /\ liveKindSeen' = (liveKindSeen \/ (extension.tag = "hit" /\ extension.extensionKind # "undefined"))
    /\ UNCHANGED <<environment, identity, probe>>

\* updateState() as it would be if it caught the error of the lookup and
\* took it for "not installed"
updateStateRejectAsMiss(k) ==
    /\ k \in Awaiting
    /\ updateStateMiss
    /\ calls' = [calls EXCEPT ![k] = "rejected"]
    /\ lastSettled' = k
    /\ UNCHANGED <<environment, identity, lastLookup, liveKindSeen, probe>>

\* the lookup of call k rejects: the await throws, nothing catches it, and
\* the promise of the call is rejected
updateStateReject(k) ==
    /\ k \in Awaiting
    /\ calls' = [calls EXCEPT ![k] = "rejected"]
    /\ lastSettled' = k
    /\ UNCHANGED <<environment, identity, snapshot, lastLookup, liveKindSeen, probe>>

(***************************************************************************)
(* Stand-alone classification, and the host settings changing.             *)
(***************************************************************************)
NoProbe == [tag |-> "none", isUi |-> FALSE]

\* isUiExtension(extensionId, manifest) is evaluated under the current settings
Classify ==
    /\ thrown = "none"
    /\ probe' = [tag |-> "classified",
                 isUi |-> isUiExtensionFn(extensionId, manifest, remoteName, configuration)]
    /\ UNCHANGED <<environment, identity, snapshot, tasks>>

\* the keys and values of the 'remote.extensionKind' setting
ConfigurationIds == {ToLowerCase(Foo \o <<".">> \o Bar), Foo \o <<".">> \o Bar,
                     <<"o", "t", "h", "e", "r", ".", "x">>}
ConfigurationKinds == {Kind("ui"), Kind("workspace"), Kind("web")}
setRemoteName(remote) ==
    /\ remote # remoteName
    /\ remoteName' = remote
    /\ probe' = NoProbe
    /\ UNCHANGED <<configuration, identity, snapshot, tasks>>

\* a key of the setting is given a value: a key the object has keeps its
\* place, a new key comes last
setConfigurationKey(id, kind) ==
    /\ IF \E i \in 1..Len(configuration) : configuration[i].id = id
       THEN LET i == CHOOSE j \in 1..Len(configuration) : configuration[j].id = id
            IN  /\ configuration[i].kind # kind
                /\ configuration' = [configuration EXCEPT ![i].kind = kind]
       ELSE /\ Len(configuration) < MaxKeys
            /\ configuration' = Append(configuration, [id |-> id, kind |-> kind])
    /\ probe' = NoProbe
    /\ UNCHANGED <<remoteName, identity, snapshot, tasks>>

\* a key of the setting is removed
removeConfigurationKey(id) ==
    /\ \E i \in 1..Len(configuration) : configuration[i].id = id
    /\ configuration' = SelectSeq(configuration, LAMBDA e : e.id # id)
    /\ probe' = NoProbe
    /\ UNCHANGED <<remoteName, identity, snapshot, tasks>>

(***************************************************************************)
(* Specifications.                                                         *)
(***************************************************************************)
\* the state right after new Package(registry, m) under the given settings
InitWith(m, remote, config) ==
    LET this == Constructor(m, remote, config)
    IN  /\ manifest = m
        /\ remoteName = remote
        /\ configuration = config
        /\ constructedWith = <<remote, config>>
        /\ thrown = this.thrown
        /\ name = this.name
        /\ displayName = this.displayName
        /\ description = this.description
        /\ version = this.version
        /\ extensionId = this.extensionId
        /\ vsixFile = this.vsixFile
        /\ _publisher = this._publisher
        /\ _isUiExtension = this._isUiExtension
        /\ _isInstalled = FALSE
        /\ _installedVersion = <<>>
        /\ _installedExtensionKind = "undefined"
        /\ calls = <<>>
        /\ lastSettled = 0
        /\ lastLookup = NoLookup
        /\ liveKindSeen = FALSE
        /\ probe = NoProbe

\* manifest.version values: missing, unparsable, or the text of a version of vs
VersionFields(vs) == {NoStr, Str(NotAVersion)} \cup {Str(toString(v)) : v \in vs}

\* extension manifests that differ in what validity and the state depend on
LifecycleManifests(vs) ==
    [engines : {Engines({"vscode"})},
     name : {Str(Bar)},
     displayName : {NoStr},
     description : {NoStr},
     publisher : {NoStr, Str(<<>>), Str(Foo)},
     version : VersionFields(vs),
     files : {NoArr, Arr(<<Str(ReadmeFile)>>), Arr(<<NoStr, Str(ReadmeFile), Str(VsixFile)>>)},
     extensionKind : {NoKind},
     main : {Str(MainFile)},
     extensionDependencies : {NoArr},
     extensionPack : {NoArr}]

\* the life of one Package: any number of updateState() calls, up to
\* MaxCalls of them suspended at once, each lookup resolving to an extension
\* of a boundary version or to nothing, or rejecting
Init ==
    \E m \in LifecycleManifests(BoundaryVersions), remote \in {NoRemote, Remote} :
        InitWith(m, remote, <<>>)

Next ==
    \/ readGetters
    \/ updateStateCall
    \/ \E k \in 1..MaxCalls, extension \in HostExtensions(BoundaryVersions) \cup {Miss} :
          updateStateResolve(k, extension)
    \/ \E k \in 1..MaxCalls : updateStateReject(k)

Spec == Init /\ [][Next]_vars

\* package manifests that differ in what the constructor tests or defaults
ConstructManifests ==
    [engines : {NoEngines, Engines({}), Engines({"node"}), Engines({"vscode"}),
                Engines({"node", "vscode"})},
     name : {NoStr, Str(<<>>), Str(Bar)},
     displayName : {NoStr},
     description : {NoStr, Str(Foo)},
     publisher : {NoStr, Str(Foo)},
     version : VersionFields({<<MaxMajor, MaxMinor, MaxPatch>>}),
     files : {NoArr, Arr(<<Str(VsixFile)>>)},
     extensionKind : {NoKind},
     main : {Str(MainFile)},
     extensionDependencies : {NoArr},
     extensionPack : {NoArr}]

\* new Package() on any package manifest, and the life of the Package when
\* the constructor returned
InitConstruct == \E m \in ConstructManifests : InitWith(m, NoRemote, <<>>)

SpecConstruct == InitConstruct /\ [][Next]_vars

\* valid extension manifests that the settings classify differently
SettingsManifests ==
    [engines : {Engines({"vscode"})},
     name : {Str(Bar)},
     displayName : {NoStr},
     description : {NoStr},
     publisher : {Str(Foo)},
     version : {NoStr},
     files : {Arr(<<Str(VsixFile)>>)},
     extensionKind : {NoKind, Kind("ui"), Kind("workspace")},
     main : {NoStr, Str(MainFile)},
     extensionDependencies : {NoArr},
     extensionPack : {NoArr}]

\* the key of the setting for the extension of SettingsManifests, and the
\* settings that hold at most that key
OwnId == ToLowerCase(Foo \o <<".">> \o Bar)
OwnKinds == {Kind("ui"), Kind("workspace")}
OwnConfigurations == {<<>>} \cup {<<[id |-> OwnId, kind |-> k]>> : k \in OwnKinds}

\* the life of one Package while remote development and the override for
\* its extension come and go
InitSettings ==
    \E m \in SettingsManifests, remote \in {NoRemote, Remote}, config \in OwnConfigurations :
        InitWith(m, remote, config)

NextSettings ==
    \/ readGetters
    \/ updateStateCall
    \/ \E k \in 1..MaxCalls, extension \in HostExtensions({ZeroVersion}) \cup {Miss} :
          updateStateResolve(k, extension)
    \/ \E k \in 1..MaxCalls : updateStateReject(k)
    \/ \E remote \in {NoRemote, Remote} : setRemoteName(remote)
    \/ \E kind \in OwnKinds : setConfigurationKey(OwnId, kind)
    \/ removeConfigurationKey(OwnId)

SpecSettings == InitSettings /\ [][NextSettings]_vars

\* extension manifests that differ in what the classification depends on
ClassifyManifests ==
    [engines : {Engines({"vscode"})},
     name : {Str(Bar)},
     displayName : {NoStr},
     description : {NoStr},
     publisher : {Str(Foo)},
     version : {NoStr},
     files : {Arr(<<Str(VsixFile)>>)},
     extensionKind : {NoKind, Kind("ui"), Kind("workspace"), Kind("web")},
     main : {NoStr, Str(<<>>), Str(MainFile)},
     extensionDependencies : {NoArr, Arr(<<>>), Arr(<<Foo>>)},
     extensionPack : {NoArr, Arr(<<>>), Arr(<<Foo>>)}]

\* a Package constructed with or without remote development and before the
\* setting has a key, classified again at any time while the settings change
\* to any object of at most MaxKeys keys
InitClassify ==
    \E m \in ClassifyManifests, remote \in {NoRemote, Remote} :
        InitWith(m, remote, <<>>)

NextClassify ==
    \/ Classify
    \/ \E remote \in {NoRemote, Remote} : setRemoteName(remote)
    \/ \E id \in ConfigurationIds, kind \in ConfigurationKinds : setConfigurationKey(id, kind)
    \/ \E id \in ConfigurationIds : removeConfigurationKey(id)

SpecClassify == InitClassify /\ [][NextClassify]_vars

(***************************************************************************)
(* Properties.                                                             *)
(***************************************************************************)
\* the manifest has a '.vsix'-suffixed string among its files
ManifestHasVsix ==
    /\ manifest.files.isArray
    /\ \E i \in 1..Len(manifest.files.val) :
          /\ manifest.files.val[i].isString
          /\ EndsWith(manifest.files.val[i].val, <<".", "v", "s", "i", "x">>)

\* the manifest of a valid package: a (non-empty) publisher and an artifact path
ValidPackage == thrown = "none" /\ Truthy(manifest.publisher) /\ ManifestHasVsix

\* the snapshot that updateState() leaves when its lookup resolves to extension
SnapshotOf(extension) ==
    IF extension.tag = "hit"
    THEN <<TRUE, extension.extensionKind, extension.version>>
    ELSE <<FALSE, "undefined", <<>>>>

\* C1: a package whose manifest has no publisher, or no '.vsix' entry in
\* files, is Invalid in every reachable state, whatever the lookups return.
C1_InvalidWhateverIsInstalled ==
    (thrown = "none" /\ (~manifest.publisher.isString \/ ~ManifestHasVsix))
        => state = "invalid"

\* C1's case: a package without a '.vsix' entry after a hit that reports a
\* lower installed version
C1_Witness ==
    /\ manifest.publisher.isString
    /\ ~ManifestHasVsix
    /\ lastLookup.tag = "hit"
    /\ SemVerLess(lastLookup.version, version)
    /\ state = "invalid"

\* C2: for a valid package, once a lookup has resolved to an installed
\* version that is lower than the package's version in semantic-version
\* order, state is UpdateAvailable, whatever the host kind.
C2_LowerInstalledVersionGivesUpdate ==
    (ValidPackage /\ lastLookup.tag = "hit" /\ SemVerLess(lastLookup.version, version))
        => state = "update"

\* C3: for a valid package, after a hit whose installed version is not lower
\* than the package's version, state is Installed when the extension is
\* classified as a UI extension and InstalledRemote otherwise.
C3_NotLowerInstalledVersionGivesInstalled ==
    (ValidPackage /\ lastLookup.tag = "hit" /\ ~SemVerLess(lastLookup.version, version))
        => state = (IF isUiExtension THEN "installed" ELSE "installed.remote")

\* C4: a valid package is Available whenever it is not installed: before any
\* lookup has resolved, and after a lookup that resolved to nothing, which
\* clears the whole snapshot whatever earlier lookups recorded.
C4_NotInstalledIsAvailable ==
    ValidPackage =>
        /\ ~_isInstalled => state = "available"
        /\ lastLookup.tag \in {"none", "miss"} =>
              /\ snapshot = <<FALSE, "undefined", <<>>>>
              /\ state = "available"

\* C4's case: a miss after an earlier hit
C4_Witness ==
    /\ ValidPackage
    /\ liveKindSeen
    /\ lastLookup.tag = "miss"
    /\ state = "available"

\* C5: state is UpdateAvailable only when the installed version is lower
\* than the package's version in semantic-version order.
C5_UpdateOnlyWhenInstalledVersionLower ==
    state = "update" =>
        /\ _installedVersion # <<>>
        /\ SemVerLess(_installedVersion, version)

\* C6: in every state, also while updateState() calls are suspended on
\* their lookups, the snapshot is either cleared or the installed flag, host
\* kind and version of one lookup result: that of the last lookup to resolve.
C6_SnapshotIsOneLookupResult ==
    /\ snapshot = SnapshotOf(lastLookup)
    /\ _isInstalled <=> _installedVersion # <<>>
    /\ ~_isInstalled => _installedExtensionKind = "undefined"

\* C6's case: a lookup has resolved to an extension, an earlier one had
\* recorded a host kind, and another call is still suspended
C6_Witness ==
    /\ Awaiting # {}
    /\ liveKindSeen
    /\ lastLookup.tag = "hit"
    /\ lastLookup.extensionKind = "undefined"

\* C7 as the specification states it: once a hit has reported a host kind,
\* isUiExtension is never again taken from the construction-time hint.
C7_LiveKindOverridesPermanently ==
    liveKindSeen => _installedExtensionKind # "undefined"

\* C7 as amended: the host kind a hit reports overrides the construction-time
\* hint for as long as that hit is the last lookup to have resolved; once a
\* later lookup resolves to nothing, or to an extension without a host kind,
\* isUiExtension is the hint again.
C7_LiveKindOverridesWhileRecorded ==
    IF lastLookup.tag = "hit" /\ lastLookup.extensionKind # "undefined"
    THEN isUiExtension = (lastLookup.extensionKind = "UI")
    ELSE isUiExtension = _isUiExtension

\* C7's case: the last hit reports a host kind that contradicts the hint
C7_Witness ==
    /\ lastLookup.tag = "hit"
    /\ lastLookup.extensionKind = "Workspace"
    /\ _isUiExtension
    /\ ~isUiExtension

\* C8: when updateState() calls overlapped and all of them have completed,
\* the snapshot is the result of the lookup that resolved last, whatever the
\* order in which the calls were issued.
C8_LastToCompleteWins ==
    (/\ Len(calls) >= 2
     /\ \A k \in 1..Len(calls) : calls[k] = "fulfilled")
        => snapshot = SnapshotOf(lastLookup)

\* C8's case: of two overlapping calls the one issued first completed last,
\* with a hit, after the other had cleared or set the snapshot
C8_Witness ==
    /\ Len(calls) = 2
    /\ \A k \in 1..Len(calls) : calls[k] = "fulfilled"
    /\ lastSettled = 1
    /\ lastLookup.tag = "hit"

\* C9: when the lookup of an updateState() call raises an error, the call
\* fails with it and the snapshot and the state stay what they were.
C9_LookupErrorChangesNothing ==
    [][\A k \in 1..MaxCalls :
          (k \in Awaiting /\ Len(calls') = Len(calls) /\ calls'[k] = "rejected")
              => (snapshot' = snapshot /\ state' = state)]_vars

\* C9's case: a call has failed on a package that an earlier call found installed
C9_Witness ==
    /\ \E k \in 1..Len(calls) : calls[k] = "rejected"
    /\ _isInstalled
    /\ ValidPackage

\* C10: without remote development the classification is UI, whatever the
\* manifest's main, extensionDependencies, extensionPack and extensionKind
\* and whatever the setting says for the extension.
C10_NoRemoteIsAlwaysUi ==
    (probe.tag = "classified" /\ ~remoteName.isDefined) => probe.isUi

\* C10's case: no remote development, a manifest with main and extensionKind
\* 'workspace', and a matching 'workspace' override
C10_Witness ==
    /\ probe.tag = "classified"
    /\ ~remoteName.isDefined
    /\ Truthy(manifest.main)
    /\ manifest.extensionKind = Kind("workspace")
    /\ isNonEmptyArray(manifest.extensionPack)
    /\ \E i \in 1..Len(configuration) :
          /\ ToLowerCase(configuration[i].id) = extensionId
          /\ configuration[i].kind = Kind("workspace")

\* the places of the setting's keys that match the extension ID when
\* lower-cased, and the value of the first of them
MatchingKeys == {i \in 1..Len(configuration) : ToLowerCase(configuration[i].id) = extensionId}

Override == configuration[CHOOSE i \in MatchingKeys : \A j \in MatchingKeys : i <= j].kind

\* what the manifest alone suggests when no kind is resolved: UI unless it
\* has a (truthy) main, extension dependencies or an extension pack
HeuristicUi ==
    /\ ~Truthy(manifest.main)
    /\ ~(manifest.extensionDependencies.isArray /\ manifest.extensionDependencies.val # <<>>)
    /\ ~(manifest.extensionPack.isArray /\ manifest.extensionPack.val # <<>>)

\* C11: under remote development an override whose key matches the extension
\* ID case-insensitively decides before the manifest's extensionKind:
\* 'workspace' classifies workspace and 'ui' classifies UI whatever the
\* manifest says, and the manifest's extensionKind is used only when no key
\* of the setting matches.
C11_OverrideBeforeManifestKind ==
    (probe.tag = "classified" /\ remoteName.isDefined) =>
        /\ (MatchingKeys # {} /\ Override = Kind("workspace")) => ~probe.isUi
        /\ (MatchingKeys # {} /\ Override = Kind("ui")) => probe.isUi
        /\ (MatchingKeys # {} /\ Override \notin {Kind("ui"), Kind("workspace")})
              => (probe.isUi <=> HeuristicUi)
        /\ (MatchingKeys = {} /\ manifest.extensionKind = Kind("ui")) => probe.isUi
        /\ (MatchingKeys = {} /\ manifest.extensionKind = Kind("workspace")) => ~probe.isUi

\* C11's case: a 'workspace' override under a key that differs from the
\* extension ID in case, against a manifest that says 'ui'
C11_Witness ==
    /\ probe.tag = "classified"
    /\ remoteName.isDefined
    /\ manifest.extensionKind = Kind("ui")
    /\ MatchingKeys # {}
    /\ \A i \in MatchingKeys : configuration[i].id # extensionId
    /\ Override = Kind("workspace")
    /\ ~probe.isUi

\* the manifest's engines field is an object with the key 'vscode'
HasVscodeEngine == manifest.engines.isObject /\ "vscode" \in manifest.engines.keys

\* C12: construction fails with NotAnExtensionError for every manifest whose
\* engines is not an object with the key 'vscode' (also when the name is
\* missing too), with the TypeError for a missing name when the engines are
\* right but the name is not a string, and succeeds for every other manifest.
C12_ConstructionErrors ==
    /\ ~HasVscodeEngine => thrown = "NotAnExtensionError"
    /\ (HasVscodeEngine /\ ~manifest.name.isString) => thrown = "TypeError"
    /\ (HasVscodeEngine /\ manifest.name.isString) => thrown = "none"

\* C12's case: a manifest with neither the engines key nor a name
C12_Witness ==
    /\ manifest.engines.isObject
    /\ ~HasVscodeEngine
    /\ ~manifest.name.isString
    /\ thrown = "NotAnExtensionError"

\* C13: errorMessage is non-empty only when state is Invalid, so it is empty
\* in the four other states; when the publisher and the artifact path are
\* both missing it is the missing-publisher message.
C13_ErrorMessageOnlyWhenInvalid ==
    /\ errorMessage # "" => state = "invalid"
    /\ state \in {"available", "installed", "installed.remote", "update"} => errorMessage = ""
    /\ (thrown = "none" /\ ~manifest.publisher.isString /\ ~ManifestHasVsix)
          => errorMessage = "Manifest is missing \"publisher\" field."

\* C13's case: neither publisher nor artifact path, after a lookup found
\* the extension installed
C13_Witness ==
    /\ ~manifest.publisher.isString
    /\ ~ManifestHasVsix
    /\ lastLookup.tag = "hit"
    /\ state = "invalid"
    /\ errorMessage = "Manifest is missing \"publisher\" field."

\* the kind the setting and the manifest resolve to is neither 'ui' nor
\* 'workspace'
KindUnresolved ==
    IF MatchingKeys # {}
    THEN Override \notin {Kind("ui"), Kind("workspace")}
    ELSE manifest.extensionKind \notin {Kind("ui"), Kind("workspace")}

\* extensionDependencies or extensionPack is a non-empty sequence
HasDependenciesOrPack ==
    \/ manifest.extensionDependencies.isArray /\ Len(manifest.extensionDependencies.val) > 0
    \/ manifest.extensionPack.isArray /\ Len(manifest.extensionPack.val) > 0

\* C14 as the specification states it: under remote development and with no
\* resolved kind, the classification is workspace when the manifest has a
\* main field, workspace when extensionDependencies or extensionPack is a
\* non-empty sequence, and UI otherwise.
C14_MainPresentIsWorkspace ==
    (probe.tag = "classified" /\ remoteName.isDefined /\ KindUnresolved) =>
        /\ manifest.main.isString => ~probe.isUi
        /\ HasDependenciesOrPack => ~probe.isUi
        /\ (~manifest.main.isString /\ ~HasDependenciesOrPack) => probe.isUi

\* C14 as amended: the main field counts only when it is truthy, so an empty
\* main is treated like an absent one, as an empty extensionDependencies or
\* extensionPack is.
C14_TruthyMainIsWorkspace ==
    (probe.tag = "classified" /\ remoteName.isDefined /\ KindUnresolved) =>
        /\ Truthy(manifest.main) => ~probe.isUi
        /\ HasDependenciesOrPack => ~probe.isUi
        /\ (~Truthy(manifest.main) /\ ~HasDependenciesOrPack) => probe.isUi

\* C14's case: an empty main, an empty extensionDependencies and no
\* extensionPack classify UI under an override that is neither kind
C14_Witness ==
    /\ probe.tag = "classified"
    /\ remoteName.isDefined
    /\ MatchingKeys # {}
    /\ KindUnresolved
    /\ manifest.main = Str(<<>>)
    /\ manifest.extensionDependencies = Arr(<<>>)
    /\ manifest.extensionPack = NoArr
    /\ probe.isUi

\* C15: the snapshot changes only in the step in which the lookup of an
\* updateState() call resolves (reading a getter, issuing a call and a
\* failing lookup leave it alone), and while the snapshot stays the same
\* every getter returns what it returned before.
C15_StateChangesOnlyWhenLookupResolves ==
    [][/\ snapshot' # snapshot =>
             \E k \in Awaiting : Len(calls') = Len(calls) /\ calls'[k] = "fulfilled"
       /\ snapshot' = snapshot =>
             /\ state' = state
             /\ isInstalled' = isInstalled
             /\ installedVersion' = installedVersion
             /\ isUiExtension' = isUiExtension
             /\ isUpdateAvailable' = isUpdateAvailable
             /\ errorMessage' = errorMessage]_vars

\* C15's case: a call is suspended on its lookup while the snapshot still
\* holds what an earlier lookup found
C15_Witness ==
    /\ ValidPackage
    /\ Awaiting # {}
    /\ lastLookup.tag = "hit"
    /\ _isInstalled
    /\ state # "available"

\* C16: whenever the snapshot holds no live host kind (no lookup has
\* resolved yet, or the last one resolved to nothing or to an extension
\* without a host kind), isUiExtension is the classification computed at
\* construction, under the settings of that moment, whatever the remote-mode
\* flag and the override have become since.
C16_HintIsConstructionTimeClassification ==
    (/\ thrown = "none"
     /\ \/ lastLookup.tag \in {"none", "miss"}
        \/ lastLookup.tag = "hit" /\ lastLookup.extensionKind = "undefined")
        => isUiExtension =
               isUiExtensionFn(extensionId, manifest, constructedWith[1], constructedWith[2])

\* C16's case: after a hit with a host kind and then a miss, under settings
\* that have changed since construction and now classify the other way
C16_Witness ==
    /\ liveKindSeen
    /\ lastLookup.tag = "miss"
    /\ <<remoteName, configuration>> # constructedWith
    /\ isUiExtensionFn(extensionId, manifest, remoteName, configuration) # isUiExtension

\* C17: in every reachable state, also under overlapping updateState()
\* calls, a state of UpdateAvailable, Installed or InstalledRemote implies
\* that the installed flag is set and an installed version is recorded; a
\* package whose installed flag is not set is Available or Invalid.
C17_InstalledStatesImplyInstalledFlag ==
    /\ state \in {"update", "installed", "installed.remote"} =>
          (_isInstalled /\ _installedVersion # <<>>)
    /\ ~_isInstalled => state \in {"available", "invalid"}

\* C17's case: UpdateAvailable while one of two overlapping calls is still
\* suspended and the other has resolved
C17_Witness ==
    /\ Len(calls) = 2
    /\ Awaiting # {}
    /\ state = "update"
    /\ _isInstalled
    /\ _installedVersion # <<>>

====
